---- MODULE Spec2Model ----
(***************************************************************************)
(* Model of the SentinelBot dashboard front end: the authenticated request *)
(* pipeline (requestWithSession, copied into every page and panel), the    *)
(* session-expired handler, and the paginated loaders built on top of it.  *)
(*                                                                         *)
(* JavaScript runs one task at a time, so every action below is one task:  *)
(* the code from an event (a call, a network response, a render) up to the *)
(* next await that needs the network.                                      *)
(***************************************************************************)
EXTENDS Integers, Sequences, FiniteSets, TLC

\* ------------------------------------------------------------------ bounds
MaxTime == 1        \* the clock runs 0..MaxTime
MaxTokens == 3      \* access tokens the credential service issues
MaxToasts == 2      \* 'Session expired' notifications counted
MaxPage == 2        \* highest page a loader asks for
MaxTotal == 2       \* highest total a list response reports
LongTotal == 25     \* total of a run list that spans more than one page

\* requestWithSession invocations that can be alive at once: two, so that any
\* invocation can overlap with another one
Slots == {1, 2}
Statuses == {200, 401, 500}
TTLs == {1}         \* expiresInSeconds the credential service may grant

\* tokenType strings, as sequences of characters
LowerBearer == <<"b", "e", "a", "r", "e", "r">>
TokenTypes == {<<>>, LowerBearer}

VARIABLES
    store,            \* the persisted session record (lib/auth storage)
    now,              \* the clock isSessionExpired reads
    issued,           \* last access token handed out by the credential service
    isAuthenticated,  \* App's isAuthenticated state
    route,            \* current location (react-router)
    toasts,           \* 'Session expired' toasts shown since the last login
    exec,             \* the requestWithSession invocations, one per slot
    topbar,           \* TopBar's committed React state (project loader)
    selectedProjectId,\* useProjectSelection: shared selection ("" is none)
    topbarView,       \* the state TopBar's current closures were rendered with
    server,           \* ids of the projects that exist on the server
    listed,           \* what the last successful project list response reported
    runs,             \* the Runs page's committed React state and its fetch ref
    runsView,         \* the state the Runs page's current closures were rendered with
    dashboard,        \* the Dashboard page: its environment, run configuration and state
    panel,            \* LiveRunPanel's committed React state (device and network loaders)
    panelView,        \* the state LiveRunPanel's current closures were rendered with
    logout,           \* App.handleLogout is awaiting logoutSession
    screen            \* the route element on screen ("" before the first render)

sessionVars == <<store, now, issued, isAuthenticated, route, toasts>>
runsVars == <<runs, runsView>>
pageVars == <<dashboard, panel, panelView, logout, screen>>
loaderVars == <<topbar, selectedProjectId, topbarView, server, listed, runs, runsView,
                dashboard, panel, panelView, logout, screen>>
vars == <<store, now, issued, isAuthenticated, route, toasts, exec,
          topbar, selectedProjectId, topbarView, server, listed, runs, runsView,
          dashboard, panel, panelView, logout, screen>>

\* ------------------------------------------------------------ session store
NoSession == [accessToken |-> 0, tokenType |-> <<>>, expiresAt |-> 0]
NoRecord == [present |-> FALSE, session |-> NoSession, remember |-> FALSE]

getStoredSessionRecord == store

getStoredAuth == store.present

isSessionExpired(session) == session.expiresAt <= now

\* the session the credential service grants (on login and on refresh): a new
\* access token of type 'bearer', valid for ttl
Renewed(ttl) ==
    [accessToken |-> issued + 1, tokenType |-> LowerBearer, expiresAt |-> now + ttl]

\* -------------------------------------------------------- request pipeline
NoHeaders == [h \in {} |-> <<>>]
ContentTypeJson == [h \in {"Content-Type"} |-> <<"application/json">>]
ForeignAuth == [h \in {"Authorization"} |-> <<"Basic", " ", "caller">>]
CallerHeaders == {ContentTypeJson, ForeignAuth}

toUpperCase(c) ==
    CASE c = "b" -> "B"
      [] c = "e" -> "E"
      [] c = "a" -> "A"
      [] c = "r" -> "R"
      [] OTHER -> c

\* `${tokenType[0].toUpperCase()}${tokenType.slice(1)}`, or 'Bearer'
Normalized(tokenType) ==
    IF tokenType # <<>>
    THEN <<toUpperCase(Head(tokenType))>> \o Tail(tokenType)
    ELSE <<"B", "e", "a", "r", "e", "r">>

buildAuthHeader(tokenType, accessToken) ==
    Normalized(tokenType) \o <<" ", ToString(accessToken)>>

\* the headers object executeRequest hands to fetch: later keys win
RequestHeaders(session, initHeaders) ==
    initHeaders @@
    [h \in {"Authorization", "Accept"} |->
        IF h = "Authorization"
        THEN buildAuthHeader(session.tokenType, session.accessToken)
        ELSE <<"application/json">>]

ProjectIds == {"p1", "p2"}

\* the items of a list response: at most two project ids, in server order; the
\* last one repeats an id within the page
Pages == {<<>>, <<"p1">>, <<"p2">>, <<"p1", "p2">>, <<"p1", "p1">>}

\* page_size: String(20) in the project list request
ProjectPageSize == 20

\* the page_size a list response may report: the one asked for or another
PageSizes == {ProjectPageSize, 10}

\* A response body.  ok is FALSE when response.json() throws; total is -1
\* when the field is missing.  The server echoes the page it was asked for.
NoBody == [ok |-> FALSE, items |-> <<>>, total |-> 0, pageSize |-> 0]
Bodies ==
    {NoBody} \cup
    [ok : {TRUE}, items : Pages, total : -1 .. MaxTotal, pageSize : PageSizes]

\* nothing listed yet
NotListed == [loaded |-> FALSE, total |-> 0, pageSize |-> 0]

Pending == [kind |-> "pending", status |-> 0]
Null == [kind |-> "null", status |-> 0]
Threw == [kind |-> "threw", status |-> 0]
Response(status) == [kind |-> "response", status |-> status]

\* what the caller's closure holds when it calls requestWithSession
\* (page, pageSize, filter: the query; items, sel: the list and the selection
\* the caller saw; created: the id the server gives the project of a create
\* request; replace: fetchRuns' second parameter)
NoArg ==
    [page |-> 0, pageSize |-> 0, filter |-> "", items |-> <<>>, sel |-> "",
     created |-> "", replace |-> FALSE]

\* One invocation of requestWithSession.  record, active, init and arg are its
\* locals; expiredAtStart, log, used, sent, renewals and handled record what it
\* has done so far, and body the parsed body of the response it returned.
IdleExec ==
    [pc |-> "idle", owner |-> "none", record |-> NoRecord, active |-> NoSession,
     init |-> NoHeaders, arg |-> NoArg, expiredAtStart |-> FALSE, log |-> <<>>,
     used |-> <<>>, sent |-> <<>>, renewals |-> <<>>, handled |-> 0,
     outcome |-> Pending, body |-> NoBody]

InFlight(e) == e.pc \in {"refresh1", "call1", "refresh2", "call2"}

\* A settled invocation hands its result to the awaiting caller in the same
\* task, before any other event is handled: nothing else runs while a slot is
\* "done", and Release returns the slot.
Settled == \E s \in Slots : exec[s].pc = "done"

\* slots are interchangeable: a new invocation takes the lowest idle one
Free(s) == exec[s].pc = "idle"
FreeSlot(s) == Free(s) /\ \A r \in Slots : Free(r) => s <= r

\* the session-expired handler that forgets the toast and the redirect
handleSessionExpiredSilently ==
    /\ store' = NoRecord
    /\ UNCHANGED <<toasts, route>>

\* handleSessionExpired: clearStoredAuth, toast 'Session expired', navigate
handleSessionExpired ==
    /\ store' = NoRecord
    /\ toasts' = toasts + 1
    /\ route' = "/login"

\* a path of requestWithSession that calls handleSessionExpired and returns null
ExpireAndReturnNull(s, e, ev) ==
    /\ toasts < MaxToasts
    /\ handleSessionExpired
    /\ exec' = [exec EXCEPT ![s] =
          [e EXCEPT !.pc = "done", !.outcome = Null, !.log = @ \o ev,
                    !.handled = @ + (toasts' - toasts)]]

HasStoredRecordOnly(record) == record.present

\* record?.session?.accessToken is truthy (0 stands for the empty string)
HasAccessToken(record) == record.present /\ record.session.accessToken # 0

RefreshAlways(session) == TRUE

RefreshNever(session) == FALSE

\* if (isSessionExpired(activeSession)): the proactive check
ProactiveCheck(session) == isSessionExpired(session)

KeepStale(active, refreshed) == active

\* activeSession = refreshed
Adopt(active, refreshed) == refreshed

RetryNever(status) == FALSE

RetryOnError(status) == status >= 400

\* if (response.status === 401) after the first call: the reactive check
ReactiveCheck(status) == status = 401

AcceptAny(status) == FALSE

\* if (response.status === 401) after the last call: the terminal check
TerminalCheck(status) == status = 401

\* executeRequest(activeSession): the call is on the wire
Issued(e, session, pc) ==
    [e EXCEPT !.pc = pc, !.active = session,
              !.log = @ \o <<"call">>,
              !.used = @ \o <<session>>,
              !.sent = @ \o <<RequestHeaders(session, e.init)>>]

SwallowedRejection(e) ==
    [e EXCEPT !.pc = "done", !.outcome = Null, !.log = @ \o <<"rejected">>]

\* await executeRequest(...) rejects: requestWithSession has no try/catch, so
\* its own promise rejects with the same error
Rejected(e) ==
    [e EXCEPT !.pc = "done", !.outcome = Threw, !.log = @ \o <<"rejected">>]

\* requestWithSession(url, init) up to its first await
Request(s, owner, initHeaders, arg) ==
    /\ isAuthenticated
    /\ ~Settled
    /\ FreeSlot(s)
    /\ LET record == getStoredSessionRecord
           e == [IdleExec EXCEPT
                   !.owner = owner, !.init = initHeaders, !.arg = arg,
                   !.record = record,
                   !.expiredAtStart = (record.session.expiresAt <= now)]
       IN IF ~HasAccessToken(record)
          THEN ExpireAndReturnNull(s, e, <<"expired">>)
          ELSE IF ProactiveCheck(record.session)
          THEN /\ exec' = [exec EXCEPT ![s] =
                     [e EXCEPT !.pc = "refresh1", !.active = record.session,
                               !.log = <<"refresh">>]]
               /\ UNCHANGED <<store, toasts, route>>
          ELSE /\ exec' = [exec EXCEPT ![s] = Issued(e, record.session, "call1")]
               /\ UNCHANGED <<store, toasts, route>>
    /\ UNCHANGED <<now, issued, isAuthenticated>>

\* refreshSession resolves with a renewed session, which it has saved
Refreshed(s, ttl) ==
    /\ ~Settled
    /\ exec[s].pc \in {"refresh1", "refresh2"}
    /\ issued < MaxTokens
    /\ LET refreshed == Renewed(ttl)
           next == IF exec[s].pc = "refresh1" THEN "call1" ELSE "call2"
           e == [exec[s] EXCEPT !.renewals = @ \o <<refreshed>>,
                                !.log = @ \o <<"renewed">>]
       IN /\ store' = [present |-> TRUE, session |-> refreshed,
                       remember |-> exec[s].record.remember]
          /\ exec' = [exec EXCEPT ![s] = Issued(e, Adopt(e.active, refreshed), next)]
    /\ issued' = issued + 1
    /\ UNCHANGED <<now, isAuthenticated, route, toasts>>

\* a failed renewal that is attempted once more
RenewedAgain(s) ==
    /\ ~Settled
    /\ exec[s].pc \in {"refresh1", "refresh2"}
    /\ Len(exec[s].log) < 6
    /\ exec' = [exec EXCEPT ![s] =
          [@ EXCEPT !.log = @ \o <<"refreshFailed", "refresh">>]]
    /\ UNCHANGED sessionVars

\* refreshSession resolves with null: if (!refreshed) handleSessionExpired()
NotRefreshed(s) ==
    /\ ~Settled
    /\ exec[s].pc \in {"refresh1", "refresh2"}
    /\ ExpireAndReturnNull(s, exec[s], <<"refreshFailed", "expired">>)
    /\ UNCHANGED <<now, issued, isAuthenticated>>

\* fetch resolves with a response of the given status, whose body the caller
\* will read
Responded(s, status, body) ==
    /\ ~Settled
    /\ exec[s].pc \in {"call1", "call2"}
    /\ LET ev == <<"r" \o ToString(status)>>
       IN IF exec[s].pc = "call1" /\ ReactiveCheck(status)
          THEN /\ exec' = [exec EXCEPT ![s] =
                     [@ EXCEPT !.pc = "refresh2", !.log = @ \o ev \o <<"refresh">>]]
               /\ UNCHANGED <<store, toasts, route>>
          ELSE IF TerminalCheck(status)
          THEN ExpireAndReturnNull(s, exec[s], ev \o <<"expired">>)
          ELSE /\ exec' = [exec EXCEPT ![s] =
                     [@ EXCEPT !.pc = "done", !.outcome = Response(status),
                               !.log = @ \o ev, !.body = body]]
               /\ UNCHANGED <<store, toasts, route>>
    /\ UNCHANGED <<now, issued, isAuthenticated>>

\* fetch rejects (transport failure)
Failed(s) ==
    /\ ~Settled
    /\ exec[s].pc \in {"call1", "call2"}
    /\ exec' = [exec EXCEPT ![s] = Rejected(@)]
    /\ UNCHANGED sessionVars

\* ------------------------------------------------------ TopBar: project list
NoError == ""

TopBarInitial ==
    [projects |-> <<>>, projectPage |-> 0, projectTotal |-> 0,
     isLoadingProjects |-> FALSE, projectError |-> NoError,
     hasFetchedProjects |-> FALSE]

\* what a render of TopBar captures in its closures
Rendered(tb, sel) == [mounted |-> TRUE, state |-> tb, selectedProjectId |-> sel]

Contains(list, id) == \E i \in DOMAIN list : list[i] = id

RECURSIVE Dedup(_, _)
\* the for loop over [...projects, ...nextItems] with the seen set
Dedup(list, merged) ==
    IF list = <<>> THEN merged
    ELSE IF Contains(merged, Head(list)) THEN Dedup(Tail(list), merged)
    ELSE Dedup(Tail(list), Append(merged, Head(list)))

Concatenated(projects, nextItems) == projects \o nextItems

Merged(projects, nextItems) == Dedup(projects \o nextItems, <<>>)

AlwaysMore(tb) == TRUE

\* hasMoreProjects, as the render computed it
hasMoreProjects(tb) ==
    IF tb.projectPage = 0 THEN TRUE ELSE Len(tb.projects) < tb.projectTotal

\* response.ok
Ok(status) == status >= 200 /\ status <= 299

\* the caller got a response that is ok and whose body parsed
Success(e, body) == e.outcome.kind = "response" /\ Ok(e.outcome.status) /\ body.ok

\* fetchProjects up to its await: setIsLoadingProjects(true), setProjectError(null)
ProjectsStarted(tb) ==
    [tb EXCEPT !.isLoadingProjects = TRUE, !.projectError = NoError]

\* fetchProjects after its await, with the finally block
ProjectsSettled(tb, e, body) ==
    LET done == [tb EXCEPT !.isLoadingProjects = FALSE]
    IN IF e.outcome = Null
       THEN [done EXCEPT !.projectError = "Session expired."]
       ELSE IF e.outcome = Threw \/ ~Ok(e.outcome.status) \/ ~body.ok
       THEN [done EXCEPT !.projectError = "Unable to load projects."]
       ELSE LET merged == Merged(e.arg.items, body.items)
            IN [done EXCEPT
                  !.projects = merged,
                  !.projectTotal = IF body.total = -1 THEN Len(merged) ELSE body.total,
                  !.projectPage = e.arg.page]

\* the selection fetchProjects leaves behind
ProjectsSelected(sel, e, body) ==
    IF e.outcome.kind = "response" /\ Ok(e.outcome.status) /\ body.ok
    THEN LET merged == Merged(e.arg.items, body.items)
         IN IF merged # <<>> /\ (e.arg.sel = "" \/ ~Contains(merged, e.arg.sel))
            THEN merged[1]
            ELSE sel
    ELSE sel

\* what the response just handled reported (total ?? merged.length, page_size)
ProjectsListed(l, e, body) ==
    IF Success(e, body)
    THEN [loaded |-> TRUE,
          total |-> IF body.total = -1
                    THEN Len(Merged(e.arg.items, body.items))
                    ELSE body.total,
          pageSize |-> body.pageSize]
    ELSE l

\* fetchProjects(page), called through the closure cl; tb is the state the
\* caller leaves behind apart from this call
fetchProjects(s, page, cl, tb) ==
    /\ ~cl.state.isLoadingProjects
    /\ page <= MaxPage
    /\ Request(s, "fetchProjects", NoHeaders,
               [NoArg EXCEPT !.page = page, !.pageSize = ProjectPageSize,
                             !.items = cl.state.projects,
                             !.sel = cl.selectedProjectId])
    /\ IF exec'[s].pc = "done"
       THEN /\ topbar' = ProjectsSettled(ProjectsStarted(tb), exec'[s], NoBody)
            /\ selectedProjectId' = ProjectsSelected(selectedProjectId, exec'[s], NoBody)
       ELSE /\ topbar' = ProjectsStarted(tb)
            /\ UNCHANGED selectedProjectId
    /\ UNCHANGED <<server, listed, runsVars, pageVars>>

\* React renders TopBar with the committed state and runs the effect that
\* loads the first page
TopBarRender(s) ==
    /\ isAuthenticated
    /\ ~Settled
    /\ topbarView # Rendered(topbar, selectedProjectId)
    /\ topbarView' = Rendered(topbar, selectedProjectId)
    /\ IF /\ ~topbar.hasFetchedProjects
          /\ ~topbar.isLoadingProjects
          /\ topbar.projectError = NoError
       THEN fetchProjects(s, 1, topbarView',
                          [topbar EXCEPT !.hasFetchedProjects = TRUE])
       ELSE /\ FreeSlot(s)
            /\ UNCHANGED <<sessionVars, exec, topbar, selectedProjectId, server,
                           listed, runsVars, pageVars>>

\* the dropdown is scrolled to its end
handleProjectScroll(s) ==
    /\ topbarView.mounted
    /\ hasMoreProjects(topbarView.state)
    /\ ~topbarView.state.isLoadingProjects
    /\ topbarView.state.projectError = NoError
    /\ fetchProjects(s, topbarView.state.projectPage + 1, topbarView, topbar)
    /\ UNCHANGED topbarView

\* the dropdown is opened
handleProjectOpen(s) ==
    /\ topbarView.mounted
    /\ topbarView.state.projects = <<>>
    /\ ~topbarView.state.isLoadingProjects
    /\ topbarView.state.projectError = NoError
    /\ fetchProjects(s, 1, topbarView, topbar)
    /\ UNCHANGED topbarView

\* the user picks a project of the rendered list: onValueChange
handleSelect(id) ==
    /\ isAuthenticated
    /\ ~Settled
    /\ topbarView.mounted
    /\ Contains(topbarView.state.projects, id)
    /\ id # selectedProjectId
    /\ selectedProjectId' = id
    /\ UNCHANGED <<sessionVars, exec, topbar, topbarView, server, listed, runsVars,
                   pageVars>>

\* handleCreateProject up to its await, with valid form fields.  The server
\* creates the project when the request reaches it, under an id that is new
\* (id), or refuses ("").
handleCreateProject(s, id) ==
    /\ topbarView.mounted
    /\ id # "" => id \notin server
    /\ Request(s, "handleCreateProject", ContentTypeJson,
               [NoArg EXCEPT !.created = id])
    /\ server' = IF exec'[s].pc # "done" /\ id # "" THEN server \cup {id} ELSE server
    /\ UNCHANGED <<topbar, selectedProjectId, topbarView, listed, runsVars, pageVars>>

\* setProjects((prev) => [newProject, ...prev])
ProjectCreated(tb, e, body) ==
    IF Success(e, body)
    THEN [tb EXCEPT !.projects = <<e.arg.created>> \o @]
    ELSE tb

\* ------------------------------------------------------------ Runs: run list
\* useState(20) for pageSize
RunsPageSize == 20

\* the status filter: 'all' or one status
Filters == {"all", "failed"}

RunsInitial ==
    [runs |-> <<>>, isLoading |-> FALSE, errorMessage |-> NoError, page |-> 1,
     pageSize |-> RunsPageSize, total |-> 0, statusFilter |-> "all",
     isFetching |-> FALSE]

\* what a render of Runs captures in its closures
RunsRendered(rs, sel) == [mounted |-> TRUE, state |-> rs, selectedProjectId |-> sel]

Appended(replace, prev, items) == prev \o items

\* setRuns((prev) => (replace ? items : [...prev, ...items]))
Replaced(replace, prev, items) == IF replace THEN items ELSE prev \o items

\* Math.ceil(total / effectivePageSize), at least 1
totalPages(rs) ==
    LET effectivePageSize == IF rs.pageSize = 0 THEN RunsPageSize ELSE rs.pageSize
        pages == (rs.total + effectivePageSize - 1) \div effectivePageSize
    IN IF pages > 1 THEN pages ELSE 1

\* fetchRuns up to its await: the ref is taken, setIsLoading(true)
RunsStarted(rs) ==
    [rs EXCEPT !.isFetching = TRUE, !.isLoading = TRUE, !.errorMessage = NoError]

\* a fetchRuns that takes a body it could not parse for an empty page
ParseFailureIgnored(rs, e, body) ==
    LET done == [rs EXCEPT !.isFetching = FALSE, !.isLoading = FALSE]
    IN IF e.outcome.kind = "response" /\ Ok(e.outcome.status)
       THEN [done EXCEPT !.runs = body.items, !.total = Len(body.items),
                         !.page = e.arg.page]
       ELSE [done EXCEPT !.errorMessage = "Unable to load runs."]

\* a fetchRuns whose release is at the end of the try block instead of finally
HeldOnError(rs, e, body) ==
    IF e.outcome.kind = "response" /\ Ok(e.outcome.status) /\ body.ok
    THEN [rs EXCEPT
            !.isFetching = FALSE, !.isLoading = FALSE,
            !.runs = Replaced(e.arg.replace, @, body.items),
            !.total = IF body.total = -1 THEN Len(body.items) ELSE body.total,
            !.page = e.arg.page,
            !.pageSize = body.pageSize]
    ELSE [rs EXCEPT !.errorMessage = "Unable to load runs."]

\* fetchRuns after its await, with the finally block
RunsSettled(rs, e, body) ==
    LET done == [rs EXCEPT !.isFetching = FALSE, !.isLoading = FALSE]
    IN IF e.outcome = Null
       THEN [done EXCEPT !.errorMessage = "Session expired."]
       ELSE IF e.outcome = Threw \/ ~Ok(e.outcome.status) \/ ~body.ok
       THEN [done EXCEPT !.errorMessage = "Unable to load runs."]
       ELSE [done EXCEPT
               !.runs = Replaced(e.arg.replace, @, body.items),
               !.total = IF body.total = -1 THEN Len(body.items) ELSE body.total,
               !.page = e.arg.page,
               !.pageSize = body.pageSize]

\* fetchRuns(requestedPage, replace), called through the closure cl; rs is the
\* state the caller leaves behind apart from this call
fetchRuns(s, requestedPage, replace, cl, rs) ==
    IF cl.selectedProjectId = ""
    THEN /\ runs' = [rs EXCEPT !.runs = <<>>, !.total = 0]
         /\ FreeSlot(s)
         /\ UNCHANGED <<sessionVars, exec>>
    ELSE IF runs.isFetching
    THEN /\ runs' = rs
         /\ FreeSlot(s)
         /\ UNCHANGED <<sessionVars, exec>>
    ELSE /\ Request(s, "fetchRuns", NoHeaders,
                    [NoArg EXCEPT !.page = requestedPage,
                                  !.pageSize = cl.state.pageSize,
                                  !.filter = cl.state.statusFilter,
                                  !.items = runs.runs,
                                  !.sel = cl.selectedProjectId,
                                  !.replace = replace])
         /\ runs' = IF exec'[s].pc = "done"
                    THEN RunsSettled(RunsStarted(rs), exec'[s], NoBody)
                    ELSE RunsStarted(rs)

\* React renders Runs with the committed state; when the project, the filter
\* or the page size (through fetchRuns) differ from the previous render, or on
\* mount, the effect resets the page and loads page 1 in replace mode
RunsRender(s) ==
    /\ isAuthenticated
    /\ ~Settled
    /\ runsView # RunsRendered(runs, selectedProjectId)
    /\ runsView' = RunsRendered(runs, selectedProjectId)
    /\ IF \/ ~runsView.mounted
          \/ runsView.selectedProjectId # selectedProjectId
          \/ runsView.state.statusFilter # runs.statusFilter
          \/ runsView.state.pageSize # runs.pageSize
       THEN IF selectedProjectId # ""
            THEN fetchRuns(s, 1, TRUE, runsView', [runs EXCEPT !.page = 1])
            ELSE /\ runs' = [runs EXCEPT !.page = 1]
                 /\ FreeSlot(s)
                 /\ UNCHANGED <<sessionVars, exec>>
       ELSE /\ FreeSlot(s)
            /\ UNCHANGED <<sessionVars, exec, runs>>
    /\ UNCHANGED <<topbar, selectedProjectId, topbarView, server, listed, pageVars>>

\* a page button of Runs: handlePageChange(nextPage)
handlePageChange(s, nextPage) ==
    /\ isAuthenticated
    /\ ~Settled
    /\ runsView.mounted
    /\ ~runsView.state.isLoading
    /\ LET last == totalPages(runsView.state)
           target == IF nextPage < 1 THEN 1
                     ELSE IF nextPage > last THEN last ELSE nextPage
       IN fetchRuns(s, target, TRUE, runsView, [runs EXCEPT !.page = target])
    /\ UNCHANGED <<topbar, selectedProjectId, topbarView, server, listed, runsView,
                   pageVars>>

\* the status filter is changed: setStatusFilter
setStatusFilter(f) ==
    /\ isAuthenticated
    /\ ~Settled
    /\ runsView.mounted
    /\ f # runs.statusFilter
    /\ runs' = [runs EXCEPT !.statusFilter = f]
    /\ UNCHANGED <<sessionVars, exec, topbar, selectedProjectId, topbarView,
                   server, listed, runsView, pageVars>>

\* ------------------------------------------------------- Dashboard: Run now
\* VITE_DEMO_MODE as the build sees it ("" when it is not set)
DemoModes == {"", "true", "TRUE", "false"}

toLowerCase(str) ==
    CASE str = "TRUE" -> "true"
      [] OTHER -> str

\* String(import.meta.env.VITE_DEMO_MODE ?? "").toLowerCase() === "true"
isDemoMode(env) == toLowerCase(env) = "true"

\* texts of the Input JSON field, as sequences of characters
InputJsons ==
    {<<>>, <<" ">>, <<"1">>, <<"x">>, <<"{", "}">>, <<"{">>, <<" ", "1">>,
     <<"{", " ", "}">>, <<"1", " ">>}

RECURSIVE trimStart(_)
trimStart(str) ==
    IF str # <<>> /\ Head(str) = " " THEN trimStart(Tail(str)) ELSE str

RECURSIVE trimEnd(_)
trimEnd(str) ==
    IF str # <<>> /\ str[Len(str)] = " "
    THEN trimEnd(SubSeq(str, 1, Len(str) - 1))
    ELSE str

\* String.prototype.trim
trim(str) == trimEnd(trimStart(str))

\* JSON.parse(str) returns (a number or an object, white space allowed around
\* the value and inside the braces) instead of throwing
JSONParses(str) ==
    LET v == trim(str)
    IN \/ v # <<>> /\ \A i \in DOMAIN v : v[i] = "1"
       \/ /\ Len(v) >= 2 /\ v[1] = "{" /\ v[Len(v)] = "}"
          /\ \A i \in 2 .. (Len(v) - 1) : v[i] = " "

\* AlertsPanel: latestIssue (the project of the issue shown, "" for null),
\* isLoading, errorMessage, isFetchingRef and lastProjectRef ("" for null);
\* renderedFor is the selectedProjectId of its last render
AlertsInitial ==
    [latestIssue |-> "", isLoading |-> FALSE, errorMessage |-> NoError,
     isFetching |-> FALSE, lastProject |-> "", renderedFor |-> "unmounted"]

\* clicks is the parity of the clicks on 'Run now'; notice the title of the
\* last toast handleRunNow showed
DashboardInitial ==
    [env |-> "", deviceId |-> "", networkId |-> "", inputJson |-> <<>>,
     isSubmitting |-> FALSE, notice |-> "", clicks |-> 0,
     alerts |-> AlertsInitial]

\* an early return of handleRunNow, after the toast with that title (if any)
Refused(s, d, title) ==
    /\ dashboard' = [d EXCEPT !.notice = title]
    /\ FreeSlot(s)
    /\ UNCHANGED <<sessionVars, exec>>

\* handleRunNow that posts whatever the Input JSON field holds
PostedUnparsed(str) == FALSE

\* the try around JSON.parse(runConfig.inputJson) reaches its catch
InvalidJson(str) == trim(str) # <<>> /\ ~JSONParses(str)

\* handleRunNow up to its await.  The page is rendered again after every
\* event, so the handler reads the committed isSubmitting.
handleRunNow(s) ==
    /\ isAuthenticated
    /\ ~Settled
    /\ LET d == [dashboard EXCEPT !.clicks = 1 - @]
       IN IF ~isDemoMode(d.env)
          THEN Refused(s, d, "Demo mode disabled")
          ELSE IF selectedProjectId = ""
          THEN Refused(s, d, "Select a project")
          ELSE IF d.deviceId = "" \/ d.networkId = ""
          THEN Refused(s, d, "Select device and network")
          ELSE IF d.isSubmitting
          THEN Refused(s, d, d.notice)
          ELSE IF InvalidJson(d.inputJson)
          THEN Refused(s, d, "Invalid JSON")
          ELSE /\ Request(s, "handleRunNow", ContentTypeJson, NoArg)
               /\ dashboard' = [d EXCEPT !.isSubmitting = exec'[s].pc # "done"]
    /\ UNCHANGED <<topbar, selectedProjectId, topbarView, server, listed, runsVars,
                   panel, panelView, logout, screen>>

\* handleRunNow after its await, with the finally block
RunSettled(d, e, body) ==
    LET done == [d EXCEPT !.isSubmitting = FALSE]
    IN IF e.outcome = Null THEN done
       ELSE IF e.outcome = Threw THEN [done EXCEPT !.notice = "Network error"]
       ELSE IF ~Ok(e.outcome.status) THEN [done EXCEPT !.notice = "Run failed"]
       ELSE IF ~body.ok THEN [done EXCEPT !.notice = "Network error"]
       ELSE [done EXCEPT !.notice = "Run queued"]

\* ------------------------------------------------- AlertsPanel: latest issue
\* fetchLatestIssue up to its await
IssueStarted(al) ==
    [al EXCEPT !.isFetching = TRUE, !.isLoading = TRUE, !.errorMessage = NoError]

\* fetchLatestIssue after its await, with the finally block; the issue the
\* server returns is the latest one of the project asked for
IssueSettled(al, e, body) ==
    LET done == [al EXCEPT !.isFetching = FALSE, !.isLoading = FALSE]
    IN IF e.outcome = Null
       THEN [done EXCEPT !.errorMessage = "Session expired."]
       ELSE IF e.outcome = Threw \/ ~Ok(e.outcome.status) \/ ~body.ok
       THEN [done EXCEPT !.errorMessage = "Unable to load latest issue."]
       ELSE [done EXCEPT !.latestIssue = e.arg.sel]

\* fetchLatestIssue(projectId) with a project id, al being the state the
\* effect leaves behind
fetchLatestIssue(s, projectId, al) ==
    IF dashboard.alerts.isFetching
    THEN /\ dashboard' = [dashboard EXCEPT !.alerts = al]
         /\ FreeSlot(s)
         /\ UNCHANGED <<sessionVars, exec>>
    ELSE /\ Request(s, "fetchLatestIssue", NoHeaders,
                    [NoArg EXCEPT !.sel = projectId])
         /\ dashboard' = [dashboard EXCEPT !.alerts =
                IF exec'[s].pc = "done"
                THEN IssueSettled(IssueStarted(al), exec'[s], NoBody)
                ELSE IssueStarted(al)]

\* React renders AlertsPanel after the selection changed (or on mount) and
\* runs its effect
AlertsRender(s) ==
    /\ isAuthenticated
    /\ ~Settled
    /\ dashboard.alerts.renderedFor # selectedProjectId
    /\ LET al == [dashboard.alerts EXCEPT !.renderedFor = selectedProjectId]
       IN IF selectedProjectId = ""
          THEN /\ dashboard' = [dashboard EXCEPT !.alerts =
                      [al EXCEPT !.latestIssue = "", !.errorMessage = NoError,
                                 !.lastProject = ""]]
               /\ FreeSlot(s)
               /\ UNCHANGED <<sessionVars, exec>>
          ELSE IF al.lastProject = selectedProjectId
          THEN /\ dashboard' = [dashboard EXCEPT !.alerts = al]
               /\ FreeSlot(s)
               /\ UNCHANGED <<sessionVars, exec>>
          ELSE fetchLatestIssue(s, selectedProjectId,
                                [al EXCEPT !.lastProject = selectedProjectId])
    /\ UNCHANGED <<topbar, selectedProjectId, topbarView, server, listed, runsVars,
                   panel, panelView, logout, screen>>

\* ------------------------------------------ LiveRunPanel: devices, networks
Kinds == {"device", "network"}

\* DEVICE_PAGE_SIZE, NETWORK_PAGE_SIZE
ListPageSize == 20

\* page_size: '5' of the running-runs request
LivePageSize == 5

\* devices / networks, devicePage, deviceTotal, isLoadingDevices, deviceError,
\* hasFetchedDevices and device (the selected id), and the same for networks
ListInitial ==
    [items |-> <<>>, page |-> 0, total |-> 0, isLoading |-> FALSE,
     error |-> NoError, hasFetched |-> FALSE, selected |-> ""]

\* runItems, isLoadingRuns, runError and runFetchRef
LiveInitial ==
    [runItems |-> <<>>, isLoadingRuns |-> FALSE, runError |-> NoError,
     fetching |-> FALSE]

PanelInitial == [device |-> ListInitial, network |-> ListInitial, live |-> LiveInitial]

\* what a render of LiveRunPanel captures in its closures
PanelRendered(pn, sel) == [mounted |-> TRUE, state |-> pn, selectedProjectId |-> sel]

\* the requestWithSession caller of each list
Owner(k) == IF k = "device" THEN "fetchDevices" ELSE "fetchNetworks"

\* a panel whose two lists are written through one setter
OneList(owner) == "device"

\* the list a continuation writes: setDevices / setNetworks
Target(owner) == IF owner = "fetchDevices" THEN "device" ELSE "network"

\* hasMoreDevices / hasMoreNetworks, as the render computed it
hasMoreItems(ld) == IF ld.page = 0 THEN TRUE ELSE Len(ld.items) < ld.total

\* fetchDevices / fetchNetworks up to the await
ListStarted(ld) == [ld EXCEPT !.isLoading = TRUE, !.error = NoError]

\* fetchDevices / fetchNetworks after the await, with the finally block
ListSettled(ld, e, body) ==
    LET done == [ld EXCEPT !.isLoading = FALSE]
    IN IF e.outcome = Null
       THEN [done EXCEPT !.error = "Session expired."]
       ELSE IF e.outcome = Threw \/ ~Ok(e.outcome.status) \/ ~body.ok
       THEN [done EXCEPT !.error = "Unable to load."]
       ELSE LET merged == Merged(e.arg.items, body.items)
            IN [done EXCEPT
                  !.items = merged,
                  !.total = IF body.total = -1 THEN Len(merged) ELSE body.total,
                  !.page = e.arg.page,
                  !.selected =
                      IF merged # <<>> /\ (e.arg.sel = "" \/ ~Contains(merged, e.arg.sel))
                      THEN merged[1]
                      ELSE @]

\* fetchDevices(page) / fetchNetworks(page), called through the closure cl; pn
\* is the state the caller leaves behind apart from this call
fetchList(s, k, requestedPage, cl, pn) ==
    /\ ~cl.state[k].isLoading
    /\ requestedPage <= MaxPage
    /\ Request(s, Owner(k), NoHeaders,
               [NoArg EXCEPT !.page = requestedPage, !.pageSize = ListPageSize,
                             !.items = cl.state[k].items,
                             !.sel = cl.state[k].selected])
    /\ panel' = [pn EXCEPT ![k] =
          IF exec'[s].pc = "done"
          THEN ListSettled(ListStarted(@), exec'[s], NoBody)
          ELSE ListStarted(@)]

\* LiveRunPanel.fetchRuns up to its await
LiveStarted(lv) ==
    [lv EXCEPT !.fetching = TRUE, !.isLoadingRuns = TRUE, !.runError = NoError]

\* LiveRunPanel.fetchRuns after its await, with the finally block
LiveSettled(lv, e, body) ==
    LET done == [lv EXCEPT !.fetching = FALSE, !.isLoadingRuns = FALSE]
    IN IF e.outcome = Null
       THEN [done EXCEPT !.runError = "Session expired."]
       ELSE IF e.outcome = Threw \/ ~Ok(e.outcome.status) \/ ~body.ok
       THEN [done EXCEPT !.runError = "Unable to load current runs."]
       ELSE [done EXCEPT !.runItems = body.items]

\* LiveRunPanel.fetchRuns(), called through the closure cl
fetchLiveRuns(s, cl) ==
    IF cl.selectedProjectId = ""
    THEN /\ panel' = [panel EXCEPT !.live.runItems = <<>>, !.live.runError = NoError]
         /\ FreeSlot(s)
         /\ UNCHANGED <<sessionVars, exec>>
    ELSE IF panel.live.fetching
    THEN /\ FreeSlot(s)
         /\ UNCHANGED <<sessionVars, exec, panel>>
    ELSE /\ Request(s, "fetchLiveRuns", NoHeaders,
                    [NoArg EXCEPT !.page = 1, !.pageSize = LivePageSize,
                                  !.sel = cl.selectedProjectId])
         /\ panel' = [panel EXCEPT !.live =
               IF exec'[s].pc = "done"
               THEN LiveSettled(LiveStarted(@), exec'[s], NoBody)
               ELSE LiveStarted(@)]

\* React renders LiveRunPanel with the committed state; on mount and when the
\* selected project differs from the previous render, the effect calls
\* fetchRuns
PanelRender(s) ==
    /\ isAuthenticated
    /\ ~Settled
    /\ panelView # PanelRendered(panel, selectedProjectId)
    /\ panelView' = PanelRendered(panel, selectedProjectId)
    /\ IF ~panelView.mounted \/ panelView.selectedProjectId # selectedProjectId
       THEN fetchLiveRuns(s, panelView')
       ELSE /\ FreeSlot(s)
            /\ UNCHANGED <<sessionVars, exec, panel>>
    /\ UNCHANGED <<topbar, selectedProjectId, topbarView, server, listed, runsVars,
                   dashboard, logout, screen>>

\* the effect that loads the first page of the devices or of the networks
ListEffect(s, k) ==
    /\ panelView.mounted
    /\ ~panel[k].hasFetched
    /\ ~panelView.state[k].hasFetched
    /\ ~panelView.state[k].isLoading
    /\ panelView.state[k].error = NoError
    /\ fetchList(s, k, 1, panelView, [panel EXCEPT ![k].hasFetched = TRUE])
    /\ UNCHANGED <<topbar, selectedProjectId, topbarView, server, listed, runsVars,
                   dashboard, panelView, logout, screen>>

\* handleDeviceScroll / handleNetworkScroll: the list is scrolled to its end
handleListScroll(s, k) ==
    /\ panelView.mounted
    /\ hasMoreItems(panelView.state[k])
    /\ ~panelView.state[k].isLoading
    /\ panelView.state[k].error = NoError
    /\ fetchList(s, k, panelView.state[k].page + 1, panelView, panel)
    /\ UNCHANGED <<topbar, selectedProjectId, topbarView, server, listed, runsVars,
                   dashboard, panelView, logout, screen>>

\* the user picks a device or a network of the rendered list: setDevice / setNetwork
handleListSelect(k, id) ==
    /\ isAuthenticated
    /\ ~Settled
    /\ panelView.mounted
    /\ Contains(panelView.state[k].items, id)
    /\ id # panel[k].selected
    /\ panel' = [panel EXCEPT ![k].selected = id]
    /\ UNCHANGED <<sessionVars, exec, topbar, selectedProjectId, topbarView, server,
                   listed, runsVars, dashboard, panelView, logout, screen>>

\* the caller of a settled requestWithSession runs on
Resumed(s, body) ==
    IF exec'[s].pc = "done" /\ exec[s].owner = "fetchProjects"
    THEN /\ topbar' = ProjectsSettled(topbar, exec'[s], body)
         /\ selectedProjectId' = ProjectsSelected(selectedProjectId, exec'[s], body)
         /\ listed' = ProjectsListed(listed, exec'[s], body)
         /\ UNCHANGED <<topbarView, server, runsVars, pageVars>>
    ELSE IF exec'[s].pc = "done" /\ exec[s].owner = "handleCreateProject"
    THEN /\ topbar' = ProjectCreated(topbar, exec'[s], body)
         /\ selectedProjectId' =
               IF Success(exec'[s], body) THEN exec[s].arg.created
               ELSE selectedProjectId
         /\ UNCHANGED <<topbarView, server, listed, runsVars, pageVars>>
    ELSE IF exec'[s].pc = "done" /\ exec[s].owner = "handleRunNow"
    THEN /\ dashboard' = RunSettled(dashboard, exec'[s], body)
         /\ UNCHANGED <<topbar, selectedProjectId, topbarView, server, listed, runsVars,
                        panel, panelView, logout, screen>>
    ELSE IF exec'[s].pc = "done" /\ exec[s].owner = "handleRunNow, unmounted"
    THEN /\ dashboard' = [RunSettled(dashboard, exec'[s], body)
                             EXCEPT !.isSubmitting = dashboard.isSubmitting]
         /\ UNCHANGED <<topbar, selectedProjectId, topbarView, server, listed, runsVars,
                        panel, panelView, logout, screen>>
    ELSE IF exec'[s].pc = "done" /\ exec[s].owner = "fetchLatestIssue"
    THEN /\ dashboard' = [dashboard EXCEPT !.alerts =
                             IssueSettled(@, exec'[s], body)]
         /\ UNCHANGED <<topbar, selectedProjectId, topbarView, server, listed, runsVars,
                        panel, panelView, logout, screen>>
    ELSE IF exec'[s].pc = "done" /\ exec[s].owner \in {"fetchDevices", "fetchNetworks"}
    THEN /\ panel' = [panel EXCEPT ![Target(exec[s].owner)] =
                         ListSettled(@, exec'[s], body)]
         /\ UNCHANGED <<topbar, selectedProjectId, topbarView, server, listed, runsVars,
                        dashboard, panelView, logout, screen>>
    ELSE IF exec'[s].pc = "done" /\ exec[s].owner = "fetchLiveRuns"
    THEN /\ panel' = [panel EXCEPT !.live = LiveSettled(@, exec'[s], body)]
         /\ UNCHANGED <<topbar, selectedProjectId, topbarView, server, listed, runsVars,
                        dashboard, panelView, logout, screen>>
    ELSE IF exec'[s].pc = "done" /\ exec[s].owner = "fetchRuns"
    THEN /\ runs' = RunsSettled(runs, exec'[s], body)
         /\ UNCHANGED <<topbar, selectedProjectId, topbarView, server, listed, runsView,
                        pageVars>>
    ELSE UNCHANGED loaderVars

\* --------------------------------------------------------------- the actions
\* a page or panel calls its requestWithSession
Execute(s, owner, initHeaders) ==
    /\ Request(s, owner, initHeaders, NoArg)
    /\ UNCHANGED loaderVars

RefreshOk(s, ttl) == Refreshed(s, ttl) /\ Resumed(s, NoBody)

RefreshFailed(s) == NotRefreshed(s) /\ Resumed(s, NoBody)

CallResolved(s, status, body) == Responded(s, status, body) /\ Resumed(s, body)

CallRejected(s) == Failed(s) /\ Resumed(s, NoBody)

\* the settled promise has been consumed by its caller
Release(s) ==
    /\ exec[s].pc = "done"
    /\ exec' = [exec EXCEPT ![s] = IdleExec]
    /\ UNCHANGED <<sessionVars, loaderVars>>

\* persistSession(session, remember), setIsAuthenticated(true), with the session
\* the credential service has just issued
SignIn(ttl, remember) ==
    /\ ~isAuthenticated
    /\ ~Settled
    /\ issued < MaxTokens
    /\ store' = [present |-> TRUE, session |-> Renewed(ttl), remember |-> remember]
    /\ issued' = issued + 1
    /\ isAuthenticated' = TRUE
    /\ toasts' = 0
    /\ UNCHANGED <<now, exec>>

\* App.handleLogin: persistSession(session, remember), setIsAuthenticated(true)
handleLogin(ttl, remember) ==
    /\ SignIn(ttl, remember)
    /\ UNCHANGED <<route, loaderVars>>

\* ------------------------------------------------------ App: routes and auth
\* the routes under AppShell
ShellPaths == {"/dashboard", "/runs", "/issues", "/evidence", "/users"}

\* the locations a user can open; "/nowhere" stands for every unmatched path
Paths == ShellPaths \cup {"/login", "/signup", "/", "/nowhere"}

NavigateTo(to) == [kind |-> "navigate", to |-> to]
Page(name) == [kind |-> "page", to |-> name]

\* a guard that lets everybody through
AlwaysOutlet(auth, outlet) == outlet

\* RequireAuth: redirect to /login unless authenticated, else the <Outlet/>
RequireAuth(auth, outlet) ==
    IF ~auth THEN NavigateTo("/login") ELSE outlet

\* <Routes>: the element the location path renders under isAuthenticated = auth
Element(path, auth) ==
    IF path = "/login"
    THEN IF auth THEN NavigateTo("/dashboard") ELSE Page("Login")
    ELSE IF path = "/signup"
    THEN IF auth THEN NavigateTo("/dashboard") ELSE Page("Signup")
    ELSE IF path = "/"
    THEN NavigateTo(IF auth THEN "/dashboard" ELSE "/login")
    ELSE IF path \in ShellPaths
    THEN RequireAuth(auth, Page(path))
    ELSE RequireAuth(auth, Page("NotFound"))

\* the screen shows what the current location and state render
Committed ==
    LET el == Element(route, isAuthenticated)
    IN el.kind = "page" /\ screen = el.to

\* TopBar has been unmounted: the state updates of its pending fetchProjects
\* calls are dropped, the calls themselves run on
Unmounted(e) ==
    IF InFlight(e) /\ e.owner = "fetchProjects"
    THEN [e EXCEPT !.owner = "unmounted"]
    ELSE e

\* Dashboard has been unmounted: its pending handleRunNow calls run on, and
\* their setIsSubmitting no longer has a component to act on
Departed(e) ==
    IF InFlight(e) /\ e.owner = "handleRunNow"
    THEN [e EXCEPT !.owner = "handleRunNow, unmounted"]
    ELSE e

\* React renders <Routes> after a change of location or of isAuthenticated; a
\* <Navigate> renders nothing and replaces the location.  AppShell, and TopBar
\* in it, stays mounted between two shell pages and is unmounted otherwise.
\* Dashboard is unmounted when another element takes its place, and starts
\* with useState(false) for isSubmitting when it is shown again.
AppRender ==
    /\ ~Settled
    /\ ~Committed
    /\ LET el == Element(route, isAuthenticated)
           shown == IF el.kind = "page" THEN el.to ELSE ""
           leavesShell == screen \in ShellPaths /\ shown \notin ShellPaths
           leavesDashboard == screen = "/dashboard" /\ shown # "/dashboard"
       IN /\ screen' = shown
          /\ route' = IF el.kind = "navigate" THEN el.to ELSE route
          /\ IF leavesShell
             THEN /\ topbar' = TopBarInitial
                  /\ topbarView' = [Rendered(TopBarInitial, selectedProjectId)
                                       EXCEPT !.mounted = FALSE]
             ELSE UNCHANGED <<topbar, topbarView>>
          /\ exec' = [s \in Slots |->
                        LET e == IF leavesDashboard THEN Departed(exec[s])
                                 ELSE exec[s]
                        IN IF leavesShell THEN Unmounted(e) ELSE e]
          /\ dashboard' = IF leavesDashboard
                          THEN [dashboard EXCEPT !.isSubmitting = FALSE]
                          ELSE dashboard
    /\ UNCHANGED <<store, now, issued, isAuthenticated, toasts, selectedProjectId,
                   server, listed, runsVars, panel, panelView, logout>>

\* the links on a page: the Sidebar's navItems on a shell page, 'Sign up' on
\* Login, 'Sign in' on Signup
Links(page) ==
    IF page \in ShellPaths THEN ShellPaths
    ELSE IF page = "Login" THEN {"/signup"}
    ELSE IF page = "Signup" THEN {"/login"}
    ELSE {}

\* the user follows a link of the page on screen
OpenLocation(path) ==
    /\ ~Settled
    /\ Committed
    /\ path \in Links(screen)
    /\ path # route
    /\ route' = path
    /\ UNCHANGED <<store, now, issued, isAuthenticated, toasts, exec, loaderVars>>

\* the user loads the app anew at a location (address bar, reload): every
\* component starts over, useState(getStoredAuth) reads the store again, and
\* the pending calls of the old document are gone
Reload(path) ==
    /\ ~Settled
    /\ Committed
    /\ ~logout
    /\ route' = path
    /\ isAuthenticated' = getStoredAuth
    /\ screen' = ""
    /\ exec' = [s \in Slots |-> IdleExec]
    /\ topbar' = TopBarInitial
    /\ topbarView' = [Rendered(TopBarInitial, selectedProjectId)
                         EXCEPT !.mounted = FALSE]
    /\ UNCHANGED <<store, now, issued, toasts, selectedProjectId, server, listed,
                   runsVars, dashboard, panel, panelView, logout>>

\* TopBar renders while AppShell is on screen
ShellRender(s) ==
    /\ screen \in ShellPaths
    /\ TopBarRender(s)

\* Login.handleSubmit on a successful answer: onLogin(session, remember), then
\* navigate(from), from being the location RequireAuth redirected from or
\* /dashboard
LoginSubmitted(ttl, remember, from) ==
    /\ Committed
    /\ screen = "Login"
    /\ SignIn(ttl, remember)
    /\ route' = from
    /\ UNCHANGED loaderVars

\* Signup.handleSubmit on a successful answer: onSignup(session), which is
\* App.handleSignup: persistSession(session, true); then navigate("/dashboard")
handleSignup(ttl) ==
    /\ Committed
    /\ screen = "Signup"
    /\ SignIn(ttl, TRUE)
    /\ route' = "/dashboard"
    /\ UNCHANGED loaderVars

\* a logout that keeps the record when the server refused
KeptOnFailure(ok) == IF ok THEN NoRecord ELSE store

\* clearStoredAuth() after await logoutSession(...), whose result is not read
AfterLogout(ok) == NoRecord

\* App.handleLogout up to await logoutSession(session?.refreshToken); the
\* button is in the Sidebar of AppShell
LogoutClicked ==
    /\ ~Settled
    /\ Committed
    /\ screen \in ShellPaths
    /\ ~logout
    /\ logout' = TRUE
    /\ UNCHANGED <<sessionVars, exec, topbar, selectedProjectId, topbarView, server,
                   listed, runsVars, dashboard, panel, panelView, screen>>

\* logoutSession resolves, the server having accepted the logout (ok) or not:
\* clearStoredAuth(); setIsAuthenticated(false)
handleLogout(ok) ==
    /\ ~Settled
    /\ logout
    /\ logout' = FALSE
    /\ store' = AfterLogout(ok)
    /\ isAuthenticated' = FALSE
    /\ UNCHANGED <<now, issued, route, toasts, exec, topbar, selectedProjectId,
                   topbarView, server, listed, runsVars, dashboard, panel, panelView,
                   screen>>

Tick ==
    /\ ~Settled
    /\ now < MaxTime
    /\ now' = now + 1
    /\ UNCHANGED <<store, issued, isAuthenticated, route, toasts, exec, loaderVars>>

\* ---------------------------------------------------------------- the system
\* what the browser's storage may hold when the app starts: nothing, a record
\* without an access token, or a session that is expired (0) or not (1)
InitialRecords ==
    {NoRecord, [NoRecord EXCEPT !.present = TRUE]} \cup
    {[present |-> TRUE,
      session |-> [accessToken |-> 1, tokenType |-> tt, expiresAt |-> x],
      remember |-> TRUE] : tt \in TokenTypes, x \in {0, 1}}

InitAt(records, selections, servers, paths) ==
    /\ store \in records
    /\ now = 0
    /\ issued = 1
    /\ isAuthenticated = getStoredAuth
    /\ route \in paths
    /\ toasts = 0
    /\ exec = [s \in Slots |-> IdleExec]
    /\ topbar = TopBarInitial
    /\ selectedProjectId \in selections
    /\ topbarView = [Rendered(topbar, selectedProjectId) EXCEPT !.mounted = FALSE]
    /\ server \in servers
    /\ listed = NotListed
    /\ runs = RunsInitial
    /\ runsView = [RunsRendered(runs, selectedProjectId) EXCEPT !.mounted = FALSE]
    /\ panel = PanelInitial
    /\ panelView = [PanelRendered(panel, selectedProjectId) EXCEPT !.mounted = FALSE]
    /\ logout = FALSE
    /\ screen = ""

InitCore(records, selections, servers) ==
    InitAt(records, selections, servers, {"/dashboard"})

InitWith(records, selections, servers) ==
    /\ InitCore(records, selections, servers)
    /\ dashboard = DashboardInitial

\* The request pipeline under arbitrary callers: any page or panel calls its
\* requestWithSession at any time, with or without headers of its own.
Init == InitWith(InitialRecords, {""}, {{}})

Next ==
    \/ \E s \in Slots, h \in CallerHeaders : Execute(s, "TopBar", h)
    \/ \E s \in Slots : Execute(s, "Evidence", NoHeaders)
    \/ \E s \in Slots, ttl \in TTLs : RefreshOk(s, ttl)
    \/ \E s \in Slots : RefreshFailed(s)
    \/ \E s \in Slots, status \in Statuses : CallResolved(s, status, NoBody)
    \/ \E s \in Slots : CallRejected(s)
    \/ \E s \in Slots : Release(s)
    \/ \E ttl \in TTLs : handleLogin(ttl, TRUE)
    \/ Tick

Spec == Init /\ [][Next]_vars

\* The pipeline under the assumption that every network call is answered.
\* An invocation starts only while the token and toast counters leave room for
\* every invocation in flight to run to its end.
TokensNeeded(e) ==
    IF e.pc = "refresh1" THEN 2
    ELSE IF e.pc \in {"call1", "refresh2"} THEN 1
    ELSE 0

RECURSIVE Reserved(_)
\* renewals the invocations of the slots in S may still make
Reserved(S) ==
    IF S = {} THEN 0
    ELSE LET s == CHOOSE x \in S : TRUE
         IN TokensNeeded(exec[s]) + Reserved(S \ {s})

Room(tokens, notes) ==
    /\ issued + Reserved(Slots) + tokens <= MaxTokens
    /\ toasts + Cardinality({s \in Slots : InFlight(exec[s])}) + notes <= MaxToasts

\* renewals a new invocation may need: one proactive, one reactive
NewTokens ==
    IF ~HasAccessToken(store) THEN 0
    ELSE IF ProactiveCheck(store.session) THEN 2 ELSE 1

\* some network call of invocation s is answered
Resolve(s) ==
    \/ \E ttl \in TTLs : RefreshOk(s, ttl)
    \/ RefreshFailed(s)
    \/ \E status \in Statuses : CallResolved(s, status, NoBody)
    \/ CallRejected(s)

NextLive ==
    \/ \E s \in Slots, h \in CallerHeaders :
          Room(NewTokens, 1) /\ Execute(s, "TopBar", h)
    \/ \E s \in Slots : Room(NewTokens, 1) /\ Execute(s, "Evidence", NoHeaders)
    \/ \E s \in Slots : Resolve(s)
    \/ \E s \in Slots : Release(s)
    \/ \E ttl \in TTLs : Room(1, 0) /\ handleLogin(ttl, TRUE)
    \/ Tick

\* every network call is eventually answered and every settled promise is
\* eventually consumed (the event loop runs every task that is ready)
SpecLive ==
    /\ Init /\ [][NextLive]_vars
    /\ \A s \in Slots : SF_vars(Resolve(s)) /\ WF_vars(Release(s))

\* The project loader of TopBar on top of the pipeline: renders, dropdown
\* events, project creation and the responses to its requests.
SignedIn ==
    {[present |-> TRUE,
      session |-> [accessToken |-> a, tokenType |-> LowerBearer, expiresAt |-> MaxTime + 1],
      remember |-> TRUE] : a \in {0, 1}}

\* the statuses the list endpoint answers with while the token is accepted
ListStatuses == {200, 500}

\* What the server may answer to the request of invocation e: a list response
\* holds projects that exist, in a body that may fail to parse; a create
\* response is ok exactly when the server created the project, and names it.
Answers(e, status, body) ==
    IF ~Ok(status) THEN body = NoBody /\ (e.owner = "fetchProjects" \/ e.arg.created = "")
    ELSE IF e.owner = "fetchProjects"
    THEN body.ok => \A i \in DOMAIN body.items : body.items[i] \in server
    ELSE /\ e.arg.created # ""
         /\ body.ok => body.items = <<e.arg.created>>

\* the server reports the page size it was asked for
SameSize(body) == body.ok => body.pageSize = ProjectPageSize

\* the server reports the largest total
FullTotal(body) == body.ok => body.total = MaxTotal

InitLoader == InitWith(SignedIn, {"", "p1"}, {ProjectIds})

NextLoader ==
    \/ \E s \in Slots : TopBarRender(s)
    \/ \E s \in Slots : handleProjectScroll(s)
    \/ \E s \in Slots : handleProjectOpen(s)
    \/ \E s \in Slots, status \in ListStatuses, body \in Bodies :
          /\ Answers(exec[s], status, body) /\ SameSize(body)
          /\ CallResolved(s, status, body)
    \/ \E s \in Slots : CallRejected(s)
    \/ \E s \in Slots : Release(s)

SpecLoader == InitLoader /\ [][NextLoader]_vars

\* The project list while the user picks and creates projects: one project
\* exists at first, and the first page is loaded on mount.
InitCreate == InitWith(SignedIn, {""}, {{"p1"}})

NextCreate ==
    \/ \E s \in Slots : TopBarRender(s)
    \/ \E s \in Slots : handleProjectScroll(s)
    \/ \E id \in ProjectIds : handleSelect(id)
    \/ \E s \in Slots, id \in ProjectIds \cup {""} : handleCreateProject(s, id)
    \/ \E s \in Slots, status \in ListStatuses, body \in Bodies :
          /\ Answers(exec[s], status, body) /\ SameSize(body) /\ FullTotal(body)
          /\ CallResolved(s, status, body)
    \/ \E s \in Slots : CallRejected(s)
    \/ \E s \in Slots : Release(s)

SpecCreate == InitCreate /\ [][NextCreate]_vars

\* The project list against a server that may report a page size of its own.
NextPageSize ==
    \/ \E s \in Slots : TopBarRender(s)
    \/ \E s \in Slots : handleProjectScroll(s)
    \/ \E s \in Slots, status \in ListStatuses, body \in Bodies :
          /\ Answers(exec[s], status, body) /\ FullTotal(body)
          /\ CallResolved(s, status, body)
    \/ \E s \in Slots : Release(s)

SpecPageSize == InitLoader /\ [][NextPageSize]_vars

\* The Runs page with a project selected: renders, page buttons, filter
\* changes and the responses to its list requests.
InitRuns == InitWith(SignedIn, {"p1"}, {ProjectIds})

NextRuns ==
    \/ \E s \in Slots : RunsRender(s)
    \/ \E s \in Slots, nextPage \in 0 .. MaxPage : handlePageChange(s, nextPage)
    \/ \E f \in Filters : setStatusFilter(f)
    \/ \E s \in Slots, status \in ListStatuses, body \in Bodies :
          /\ ~Ok(status) => body = NoBody
          /\ CallResolved(s, status, body)
    \/ \E s \in Slots : CallRejected(s)
    \/ \E s \in Slots : Release(s)

SpecRuns == InitRuns /\ [][NextRuns]_vars

\* The Runs page over a list longer than one page: every list response reports
\* LongTotal runs, with the page size requested or one of the server's own.
LongBodies ==
    [ok : {TRUE}, items : Pages, total : {LongTotal}, pageSize : PageSizes]

NextPaging ==
    \/ \E s \in Slots : RunsRender(s)
    \/ \E s \in Slots, nextPage \in 0 .. MaxPage : handlePageChange(s, nextPage)
    \/ \E s \in Slots, body \in LongBodies : CallResolved(s, 200, body)
    \/ \E s \in Slots : CallResolved(s, 500, NoBody)
    \/ \E s \in Slots : Release(s)

SpecPaging == InitRuns /\ [][NextPaging]_vars

\* The Runs page on top of the whole pipeline: the stored token may be expired
\* or rejected, so its list requests go through renewals and retries.
ExpiringRecords ==
    {[present |-> TRUE,
      session |-> [accessToken |-> 1, tokenType |-> LowerBearer, expiresAt |-> x],
      remember |-> TRUE] : x \in {0, 1}}

InitFailure == InitWith(ExpiringRecords, {"p1"}, {ProjectIds})

NextFailure ==
    \/ \E s \in Slots : RunsRender(s)
    \/ \E s \in Slots, nextPage \in 1 .. MaxPage : handlePageChange(s, nextPage)
    \/ \E s \in Slots, ttl \in TTLs : RefreshOk(s, ttl)
    \/ \E s \in Slots : RefreshFailed(s)
    \/ \E s \in Slots, status \in Statuses, body \in Bodies :
          /\ ~Ok(status) => body = NoBody
          /\ SameSize(body) /\ FullTotal(body)
          /\ CallResolved(s, status, body)
    \/ \E s \in Slots : Release(s)
    \/ Tick

SpecFailure == InitFailure /\ [][NextFailure]_vars

\* The Dashboard's 'Run now' button under every build setting, selection and
\* Input JSON text.
DashboardInputs ==
    [env : DemoModes, deviceId : {"", "d1"}, networkId : {"", "n1"},
     inputJson : InputJsons, isSubmitting : {FALSE}, notice : {""}, clicks : {0},
     alerts : {AlertsInitial}]

InitDashboard ==
    /\ InitCore(SignedIn, {"", "p1"}, {ProjectIds})
    /\ dashboard \in DashboardInputs

NextDashboard ==
    \/ \E s \in Slots : handleRunNow(s)
    \/ \E s \in Slots, status \in ListStatuses, body \in {NoBody, [NoBody EXCEPT !.ok = TRUE]} :
          /\ ~Ok(status) => body = NoBody
          /\ CallResolved(s, status, body)
    \/ \E s \in Slots : CallRejected(s)
    \/ \E s \in Slots : Release(s)

SpecDashboard == InitDashboard /\ [][NextDashboard]_vars

\* The Dashboard page: the project list of TopBar next to the device list, the
\* network list and the running runs of LiveRunPanel.
\* React has rendered the committed state: it does so after every task, before
\* the next user event or response is handled
Painted ==
    /\ topbarView = Rendered(topbar, selectedProjectId)
    /\ panelView = PanelRendered(panel, selectedProjectId)

NextPanel ==
    \/ \E s \in Slots : TopBarRender(s)
    \/ \E s \in Slots : PanelRender(s)
    \/ \E s \in Slots, k \in Kinds : ListEffect(s, k)
    \/ \E s \in Slots, k \in Kinds : Painted /\ handleListScroll(s, k)
    \/ \E k \in Kinds, id \in ProjectIds : Painted /\ handleListSelect(k, id)
    \/ \E s \in Slots, status \in ListStatuses, body \in Bodies :
          /\ Painted
          /\ body.ok = Ok(status) /\ SameSize(body) /\ FullTotal(body)
          /\ body.items \in {<<>>, <<"p1">>, <<"p2">>}
          /\ CallResolved(s, status, body)
    \/ \E s \in Slots : Release(s)

SpecPanel == InitWith(SignedIn, {""}, {ProjectIds}) /\ [][NextPanel]_vars

\* The project loader against a server whose list does not change.  Here
\* server is that list as the pages it is served in; the second page may
\* repeat an id of the first, so that the pages overlap.
FirstPages == {<<"p1">>, <<"p2">>, <<"p1", "p2">>}

Layouts ==
    {<<pg>> : pg \in FirstPages} \cup
    {<<pg1, pg2>> : pg1 \in FirstPages, pg2 \in {<<"p1">>, <<"p2">>}}

\* the number of entries of the list, which is the total every response reports
Entries(layout) ==
    IF Len(layout) = 1 THEN Len(layout[1]) ELSE Len(layout[1]) + Len(layout[2])

\* the body of the answer to a request for that page: empty past the end
Served(layout, page) ==
    [ok |-> TRUE,
     items |-> IF page \in DOMAIN layout THEN layout[page] ELSE <<>>,
     total |-> Entries(layout),
     pageSize |-> ProjectPageSize]

InitStatic == InitWith(SignedIn, {""}, Layouts)

NextStatic ==
    \/ \E s \in Slots : TopBarRender(s)
    \/ \E s \in Slots :
          /\ topbarView = Rendered(topbar, selectedProjectId)
          /\ handleProjectScroll(s)
    \/ \E s \in Slots :
          /\ exec[s].owner = "fetchProjects"
          /\ CallResolved(s, 200, Served(server, exec[s].arg.page))
    \/ \E s \in Slots : CallResolved(s, 500, NoBody)
    \/ \E s \in Slots : Release(s)

SpecStatic == InitStatic /\ [][NextStatic]_vars

\* The project list while the server's list grows by the user's creations: two
\* projects exist, a page may hold fewer than all of them, every list response
\* reports the number of projects that exist when it is sent, and the dialog
\* is used while no list request is pending.
NewProjectIds == {"p3"}

ListPending ==
    \E s \in Slots : exec[s].owner = "fetchProjects" /\ exec[s].pc # "idle"

\* the body of a list response of that server
Listing(items) ==
    [ok |-> TRUE, items |-> items, total |-> Cardinality(server),
     pageSize |-> ProjectPageSize]

\* the body of the response to a successful POST /projects: the project created
CreatedBody(id) ==
    [ok |-> TRUE, items |-> <<id>>, total |-> 0, pageSize |-> 0]

InitGrow == InitWith(SignedIn, {""}, {ProjectIds})

NextGrow ==
    \/ \E s \in Slots : TopBarRender(s)
    \/ \E s \in Slots :
          /\ topbarView = Rendered(topbar, selectedProjectId)
          /\ handleProjectScroll(s)
    \/ \E s \in Slots, id \in NewProjectIds :
          /\ topbarView = Rendered(topbar, selectedProjectId)
          /\ ~ListPending
          /\ handleCreateProject(s, id)
    \/ \E s \in Slots, items \in Pages :
          /\ exec[s].owner = "fetchProjects"
          /\ Answers(exec[s], 200, Listing(items))
          /\ CallResolved(s, 200, Listing(items))
    \/ \E s \in Slots :
          /\ exec[s].owner = "handleCreateProject"
          /\ CallResolved(s, 200, CreatedBody(exec[s].arg.created))
    \/ \E s \in Slots : CallResolved(s, 500, NoBody)
    \/ \E s \in Slots : Release(s)

SpecGrow == InitGrow /\ [][NextGrow]_vars

\* The Dashboard page among the other pages of the shell: the user presses
\* 'Run now' on the Dashboard on screen and follows the Sidebar's links.
NextRemount ==
    \/ AppRender
    \/ \E path \in ShellPaths : OpenLocation(path)
    \/ \E s \in Slots :
          /\ Committed
          /\ screen = "/dashboard"
          /\ handleRunNow(s)
    \/ \E s \in Slots, status \in ListStatuses, body \in {NoBody, [NoBody EXCEPT !.ok = TRUE]} :
          /\ ~Ok(status) => body = NoBody
          /\ CallResolved(s, status, body)
    \/ \E s \in Slots : Release(s)

SpecRemount == InitDashboard /\ [][NextRemount]_vars

\* The Dashboard's AlertsPanel next to TopBar: the project list is loaded, the
\* user picks projects, and the latest issue of the selection is requested.
NextAlerts ==
    \/ \E s \in Slots : TopBarRender(s)
    \/ \E id \in ProjectIds : handleSelect(id)
    \/ \E s \in Slots : AlertsRender(s)
    \/ \E s \in Slots, status \in ListStatuses, body \in Bodies :
          /\ SameSize(body) /\ FullTotal(body)
          /\ IF exec[s].owner = "fetchProjects"
             THEN Answers(exec[s], status, body)
             ELSE (~Ok(status) => body = NoBody) /\ body.items = <<>>
          /\ CallResolved(s, status, body)
    \/ \E s \in Slots : Release(s)

SpecAlerts == InitWith(SignedIn, {""}, {ProjectIds}) /\ [][NextAlerts]_vars

\* ---------------------------------------------------------------------------
\* The application: its routes, sign-in, logout, and TopBar's first load of the
\* project list on every shell page.  The user may open the app at any location.
InitApp ==
    /\ InitAt(InitialRecords, {""}, {{}}, Paths)
    /\ dashboard = DashboardInitial

NextApp ==
    \/ AppRender
    \/ \E path \in Paths : OpenLocation(path)
    \/ \E path \in Paths : Reload(path)
    \/ \E s \in Slots : ShellRender(s)
    \/ \E ttl \in TTLs, remember \in BOOLEAN, from \in ShellPaths :
          LoginSubmitted(ttl, remember, from)
    \/ \E ttl \in TTLs : handleSignup(ttl)
    \/ LogoutClicked
    \/ \E ok \in BOOLEAN : handleLogout(ok)
    \/ \E s \in Slots, ttl \in TTLs : RefreshOk(s, ttl)
    \/ \E s \in Slots : RefreshFailed(s)
    \/ \E s \in Slots, status \in Statuses : CallResolved(s, status, NoBody)
    \/ \E s \in Slots : Release(s)

SpecApp == InitApp /\ [][NextApp]_vars

\* ================================================================== claims
Count(log, ev) == Cardinality({i \in DOMAIN log : log[i] = ev})

Started(e) == e.pc # "idle"

\* the record requestWithSession read holds an access token
ReadToken(e) == e.record.present /\ e.record.session.accessToken # 0

\* position in the log of the k-th resource call, and the reply to it
CallAt(e, k) ==
    CHOOSE i \in DOMAIN e.log :
        e.log[i] = "call" /\ Count(SubSeq(e.log, 1, i), "call") = k

ReplyTo(e, k) ==
    IF Count(e.log, "call") >= k /\ Len(e.log) > CallAt(e, k)
    THEN e.log[CallAt(e, k) + 1]
    ELSE "none"

Reply(status) == "r" \o ToString(status)

\* the Authorization value built from a session
AuthOf(session) == buildAuthHeader(session.tokenType, session.accessToken)

\* the first call got 401 and the renewal that followed succeeded
RenewedAfter401(e) ==
    /\ ReplyTo(e, 1) = "r401"
    /\ Len(e.log) >= CallAt(e, 1) + 3
    /\ e.log[CallAt(e, 1) + 3] = "renewed"

\* C1: an execute that finds no record, or a record without an access token,
\* makes no network call (no renewal, no resource call), returns null and runs
\* the session-expired handler exactly once.
C1_NoRecordNoNetwork ==
    \A s \in Slots : LET e == exec[s] IN
        (Started(e) /\ ~ReadToken(e)) =>
            /\ e.pc = "done"
            /\ e.outcome = Null
            /\ e.sent = <<>> /\ e.used = <<>>
            /\ Count(e.log, "refresh") = 0 /\ Count(e.log, "call") = 0
            /\ e.handled = 1

C1_Witness ==
    \E s \in Slots :
        /\ exec[s].pc = "done" /\ exec[s].record.present /\ ~ReadToken(exec[s])
        /\ exec[s].outcome = Null

\* C2 as stated: an execute that starts with a credential that is not expired
\* never calls refresh, whatever the server answers.
C2_NeverRefreshWhenValid ==
    \A s \in Slots : LET e == exec[s] IN
        (Started(e) /\ ReadToken(e) /\ ~e.expiredAtStart) =>
            Count(e.log, "refresh") = 0

\* C2 amended: an execute that starts with a credential that is not expired
\* calls refresh at most once, never before its first resource call, and only
\* right after that first call was answered 401.
C2_RefreshOnlyAfter401 ==
    \A s \in Slots : LET e == exec[s] IN
        (Started(e) /\ ReadToken(e) /\ ~e.expiredAtStart) =>
            /\ Count(e.log, "refresh") <= 1
            /\ \A i \in DOMAIN e.log :
                  e.log[i] = "refresh" =>
                      /\ i > 1 /\ e.log[i - 1] = "r401"
                      /\ Count(SubSeq(e.log, 1, i), "call") = 1

C2_Witness ==
    \E s \in Slots : LET e == exec[s] IN
        /\ e.pc = "done" /\ ReadToken(e) /\ ~e.expiredAtStart
        /\ Count(e.log, "refresh") = 1 /\ e.outcome = Response(200)

\* C3: an execute that starts with a credential whose expiresAt <= now calls
\* refresh exactly once before its first resource call, and that call carries
\* the renewed access token, not the expired one.
C3_RenewBeforeFirstCall ==
    \A s \in Slots : LET e == exec[s] IN
        (Started(e) /\ ReadToken(e) /\ e.expiredAtStart) =>
            /\ e.log[1] = "refresh"
            /\ Count(e.log, "call") >= 1 =>
                  /\ Count(SubSeq(e.log, 1, CallAt(e, 1)), "refresh") = 1
                  /\ e.renewals # <<>>
                  /\ e.used[1] = e.renewals[1]
                  /\ e.used[1].accessToken # e.record.session.accessToken
                  /\ "Authorization" \notin DOMAIN e.init =>
                        e.sent[1]["Authorization"] = AuthOf(e.renewals[1])

C3_Witness ==
    \E s \in Slots : LET e == exec[s] IN
        /\ e.pc = "done" /\ ReadToken(e) /\ e.expiredAtStart
        /\ Len(e.used) = 1 /\ Len(e.renewals) = 1
        /\ e.outcome = Response(200)

\* C4: when the first resource call is answered 401 and the renewal that
\* follows succeeds, the call is re-issued exactly once, with the renewed
\* credential, and the second response is the outcome unless it is a 401.
C4_RetryOnceWithRenewed ==
    \A s \in Slots : LET e == exec[s] IN
        /\ Count(e.log, "call") <= 2
        /\ RenewedAfter401(e) =>
              /\ Count(e.log, "call") = 2
              /\ e.used[2] = e.renewals[Len(e.renewals)]
              /\ "Authorization" \notin DOMAIN e.init =>
                    e.sent[2]["Authorization"] = AuthOf(e.renewals[Len(e.renewals)])
              /\ \A st \in Statuses \ {401} :
                    (e.pc = "done" /\ ReplyTo(e, 2) = Reply(st)) =>
                        e.outcome = Response(st)

C4_Witness ==
    \E s \in Slots : LET e == exec[s] IN
        /\ e.pc = "done" /\ RenewedAfter401(e)
        /\ ReplyTo(e, 2) = "r500" /\ e.outcome = Response(500)

\* C5: when the first call and the retry after a successful renewal are both
\* answered 401, execute returns null, with no third call and no further
\* renewal.
C5_SecondUnauthorizedIsTerminal ==
    \A s \in Slots : LET e == exec[s] IN
        (RenewedAfter401(e) /\ ReplyTo(e, 2) = "r401") =>
            /\ e.pc = "done"
            /\ e.outcome = Null
            /\ Count(e.log, "call") = 2
            /\ e.log[Len(e.log) - 1] = "r401"
            /\ CallAt(e, 2) = Len(e.log) - 2
            /\ Count(e.log, "refresh") = Len(e.renewals)

C5_Witness ==
    \E s \in Slots : LET e == exec[s] IN
        RenewedAfter401(e) /\ ReplyTo(e, 2) = "r401" /\ ~e.expiredAtStart

\* C6: on every path, an execute that ends unauthenticated has run the
\* session-expired handler (toast, redirect to /login) exactly once, and
\* one that ends with a response has not run it.
C6_HandlerOncePerNull ==
    \A s \in Slots : LET e == exec[s] IN
        e.pc = "done" =>
            /\ e.outcome = Null =>
                  /\ e.handled = 1 /\ Count(e.log, "expired") = 1
                  /\ route = "/login" /\ toasts >= 1
            /\ e.outcome.kind = "response" => e.handled = 0

C6_Witness ==
    \E s \in Slots : LET e == exec[s] IN
        /\ e.pc = "done" /\ e.outcome = Null /\ e.handled = 1
        /\ ReplyTo(e, 2) = "r401"

\* C7 as stated: once the session is terminally unauthenticated, all further
\* and concurrent executes together show at most one 'Session expired'
\* notification until the next login.
C7_AtMostOneNotification == toasts <= 1

\* C8 as stated: whatever headers the caller supplies, the Authorization
\* header of every outgoing request is the one built from the credential the
\* call was made with.
C8_AuthorizationNotOverridden ==
    \A s \in Slots : LET e == exec[s] IN
        \A i \in DOMAIN e.sent : e.sent[i]["Authorization"] = AuthOf(e.used[i])

C20_FailedRenewalIsFinal ==
    \A s \in Slots : LET e == exec[s] IN
        \A i \in DOMAIN e.log :
            e.log[i] = "refreshFailed" =>
                /\ e.pc = "done" /\ e.outcome = Null
                /\ i = Len(e.log) - 1 /\ e.log[Len(e.log)] = "expired"
                /\ Count(e.log, "refreshFailed") = 1
                /\ Count(e.log, "refresh") = Len(e.renewals) + 1
                /\ Count(e.log, "call") = Len(e.used)
                /\ e.handled = 1

\* a reactive renewal failed after a successful proactive one
C20_Witness ==
    \E s \in Slots : LET e == exec[s] IN
        /\ e.pc = "done" /\ Count(e.log, "refreshFailed") = 1
        /\ e.expiredAtStart /\ Count(e.log, "call") = 1

\* ------------------------------------------------------------ list claims
NoDuplicates(list) ==
    \A i, j \in DOMAIN list : list[i] = list[j] => i = j

IsPrefix(a, b) == Len(a) <= Len(b) /\ SubSeq(b, 1, Len(a)) = a

\* item i of the page is new: not accumulated and not earlier in the page
Fresh(acc, page, i) ==
    /\ ~Contains(acc, page[i])
    /\ \A j \in 1 .. (i - 1) : page[j] # page[i]

RECURSIVE Kept(_, _, _)
\* the new items among the first n of the page, in server order
Kept(acc, page, n) ==
    IF n = 0 THEN <<>>
    ELSE Kept(acc, page, n - 1) \o
         (IF Fresh(acc, page, n) THEN <<page[n]>> ELSE <<>>)

\* a fetchProjects call has just merged a page (slot s is settled)
MergedPage(s) ==
    /\ exec[s].pc = "done" /\ exec[s].owner = "fetchProjects"
    /\ Success(exec[s], exec[s].body)

\* this step settles a fetchProjects call with a merge
MergesPage(s) ==
    /\ exec[s].pc # "done" /\ exec'[s].pc = "done"
    /\ exec'[s].owner = "fetchProjects"
    /\ Success(exec'[s], exec'[s].body)

Quiescent == \A s \in Slots : exec[s].pc = "idle"

C12_NoDuplicateIds == NoDuplicates(topbar.projects)

C14_ResetThenPageOneReplaces ==
    \A s \in Slots : LET e == exec[s] IN
        (/\ e.pc = "done" /\ e.owner = "fetchRuns" /\ Success(e, e.body)
         /\ e.arg.page = 1 /\ e.arg.replace) =>
            /\ runs.runs = e.body.items
            /\ \A i \in DOMAIN e.arg.items :
                  Contains(runs.runs, e.arg.items[i]) =>
                      Contains(e.body.items, e.arg.items[i])

\* the filter was changed while p1 was listed, and the new page 1 holds p2 only
C14_Witness ==
    \E s \in Slots : LET e == exec[s] IN
        /\ e.pc = "done" /\ e.owner = "fetchRuns" /\ Success(e, e.body)
        /\ e.arg.page = 1 /\ e.arg.filter = "failed"
        /\ e.arg.items = <<"p1">> /\ e.body.items = <<"p2">>
        /\ runs.runs = <<"p2">>

\* C15 as stated: a successful load of page 1 with no reset before it only
\* appends: the list before the merge is a prefix of the list after it.
C15_PageOneOnlyAppends ==
    [][\A s \in Slots :
          (MergesPage(s) /\ exec'[s].arg.page = 1) =>
              IsPrefix(topbar.projects, topbar'.projects)]_vars

\* C16 as stated: after a successful merge, a current selection that is in the
\* merged list is left unchanged, and one that is absent or none becomes the
\* first item of a non-empty merged list.
C16_SelectionReconciled ==
    [][\A s \in Slots :
          MergesPage(s) =>
              IF Contains(topbar'.projects, selectedProjectId)
              THEN selectedProjectId' = selectedProjectId
              ELSE topbar'.projects # <<>> =>
                      selectedProjectId' = topbar'.projects[1]]_vars

\* C17 as stated: when a successful load leaves the accumulated list empty,
\* the selection is none.
C17_EmptyListClearsSelection ==
    \A s \in Slots :
        (MergedPage(s) /\ topbar.projects = <<>>) => selectedProjectId = ""

\* C18 as stated: whenever no request is in flight, the selected id is none or
\* the id of an item of the project list.
C18_SelectionValidWhenQuiescent ==
    Quiescent =>
        selectedProjectId = "" \/ Contains(topbar.projects, selectedProjectId)

\* C19 as stated: once a successful list response has reported a page size,
\* every later page request of the loader sends that page size.
C19_ReportedPageSizeIsSent ==
    [][\A s \in Slots :
          (/\ exec[s].pc = "idle" /\ exec'[s].owner = "fetchProjects"
           /\ listed.loaded) =>
              exec'[s].arg.pageSize = listed.pageSize]_vars

\* C10 as stated: a loader has at most one page request in flight at a time,
\* whether its guard is a ref or render-time state.
C10_SingleFlight ==
    Cardinality({s \in Slots :
        exec[s].owner = "fetchProjects" /\ InFlight(exec[s])}) <= 1

\* this step hands slot s's caller a 2xx response whose body does not parse
Unparsable(s) ==
    /\ exec[s].pc # "done" /\ exec'[s].pc = "done"
    /\ exec'[s].outcome.kind = "response" /\ Ok(exec'[s].outcome.status)
    /\ ~exec'[s].body.ok

\* C21: when a 2xx response carries a body that cannot be parsed, the loader
\* ends with an error message (the exception is caught), its items, total,
\* page and page size are unchanged, the session is not cleared and the
\* in-flight flag is released.
C21_UnparsableBodyIsHandled ==
    [][\A s \in Slots :
          (Unparsable(s) /\ exec'[s].owner = "fetchRuns") =>
              /\ runs'.errorMessage # NoError
              /\ runs'.runs = runs.runs /\ runs'.total = runs.total
              /\ runs'.page = runs.page /\ runs'.pageSize = runs.pageSize
              /\ ~runs'.isFetching /\ ~runs'.isLoading
              /\ store' = store /\ toasts' = toasts /\ route' = route]_vars

\* a page of a list that already holds items came back unparsable
C21_Witness ==
    \E s \in Slots : LET e == exec[s] IN
        /\ e.pc = "done" /\ e.owner = "fetchRuns"
        /\ e.outcome = Response(200) /\ ~e.body.ok
        /\ runs.runs # <<>> /\ runs.total > 0
        /\ runs.errorMessage = "Unable to load runs."
        /\ ~runs.isFetching
        /\ store.present

\* C25 as stated: an execute in which a resource call was answered with an
\* error status other than 401 returns that response after exactly one
\* resource call and with no renewal.
C25_OneCallNoRenewal ==
    \A s \in Slots : LET e == exec[s] IN
        Count(e.log, "r500") > 0 =>
            /\ e.pc = "done" /\ e.outcome = Response(500)
            /\ Count(e.log, "call") = 1
            /\ Count(e.log, "refresh") = 0

\* C25 amended: a resource call answered with an error status other than 401
\* ends the execute: that response is returned with no further call, no
\* further renewal and no session clear, and the calling loader records an
\* error and leaves its items, total and page unchanged.
C25_ErrorStatusIsReturned ==
    [][\A s \in Slots : LET e == exec'[s] IN
          Count(e.log, "r500") > 0 =>
              /\ e.pc = "done" /\ e.outcome = Response(500)
              /\ e.log[Len(e.log)] = "r500" /\ Count(e.log, "r500") = 1
              /\ Count(e.log, "refresh") = Len(e.renewals)
              /\ e.handled = 0 /\ Count(e.log, "expired") = 0
              /\ (exec[s].pc # "done" /\ e.owner = "fetchRuns") =>
                    /\ runs'.errorMessage = "Unable to load runs."
                    /\ runs'.runs = runs.runs /\ runs'.total = runs.total
                    /\ runs'.page = runs.page
                    /\ ~runs'.isFetching
                    /\ store' = store /\ toasts' = toasts]_vars

\* the retry after a renewal was answered 500 while the list held items
C25_Witness ==
    \E s \in Slots : LET e == exec[s] IN
        /\ e.pc = "done" /\ e.owner = "fetchRuns"
        /\ e.outcome = Response(500) /\ ReplyTo(e, 2) = "r500"
        /\ runs.runs # <<>> /\ runs.errorMessage = "Unable to load runs."
        /\ store.present

\* C26 as stated: after an execute in which a renewal succeeded, the session
\* store holds the renewed credential.
C26_StoreHoldsRenewed ==
    \A s \in Slots : LET e == exec[s] IN
        (e.pc = "done" /\ e.renewals # <<>>) =>
            store.present /\ store.session = e.renewals[Len(e.renewals)]

\* C26 amended: a successful renewal leaves the renewed credential in the
\* store, and an execute that returns a response does not touch the store; an
\* execute that starts while the stored credential is not expired attaches the
\* stored access token to its first call and renews only right after a 401.
C26_RenewedCredentialIsReused ==
    [][\A s \in Slots : LET e == exec[s]
                            f == exec'[s] IN
          /\ Len(f.renewals) > Len(e.renewals) =>
                store'.present /\ store'.session = f.renewals[Len(f.renewals)]
          /\ (e.pc \in {"call1", "call2"} /\ f.pc = "done"
                                          /\ f.outcome.kind = "response") =>
                store' = store
          /\ (e.pc = "idle" /\ f.pc # "idle" /\ ReadToken(f) /\ ~f.expiredAtStart) =>
                /\ f.pc = "call1" /\ f.used = <<store.session>>
                /\ "Authorization" \notin DOMAIN f.init =>
                      f.sent[1]["Authorization"] = AuthOf(store.session)
          /\ (ReadToken(f) /\ ~f.expiredAtStart) =>
                \A i \in DOMAIN f.log :
                    f.log[i] = "refresh" => i > 1 /\ f.log[i - 1] = "r401"]_vars

\* an execute renewed and returned a response; another one, started after
\* that renewal, sent the renewed token and was answered without renewing
C26_Witness ==
    \E s, r \in Slots : LET e == exec[s]
                             f == exec[r] IN
        /\ s # r
        /\ e.renewals # <<>> /\ f.pc = "done"
        /\ f.record.session = e.renewals[Len(e.renewals)]
        /\ f.used = <<f.record.session>> /\ f.log = <<"call", "r200">>
        /\ f.outcome = Response(200)
        /\ store.present /\ store.session = f.record.session

\* C28: provided every network call is answered, every execute terminates,
\* after at most two resource calls and at most two renewal calls (at most one
\* before the first resource call and at most one after it).
C28_ExecuteTerminates ==
    /\ \A s \in Slots : InFlight(exec[s]) ~> exec[s].pc = "done"
    /\ [](\A s \in Slots : LET e == exec[s] IN
            /\ Count(e.log, "call") <= 2
            /\ Count(e.log, "refresh") <= 2
            /\ Count(e.log, "call") >= 1 =>
                  /\ Count(SubSeq(e.log, 1, CallAt(e, 1)), "refresh") <= 1
                  /\ Count(SubSeq(e.log, CallAt(e, 1), Len(e.log)), "refresh") <= 1)

\* an execute ended after two renewals and two resource calls
C28_Witness ==
    \E s \in Slots : LET e == exec[s] IN
        /\ e.pc = "done" /\ e.expiredAtStart
        /\ Count(e.log, "call") = 2 /\ Count(e.log, "refresh") = 2
        /\ Len(e.renewals) = 2

\* the conditions C24 names, stated on the inputs: demo mode is enabled, a
\* project, a device and a network are selected, and the Input JSON text is
\* empty (nothing but white space) or a JSON value
RunAllowed ==
    /\ dashboard.env \in {"true", "TRUE"}
    /\ selectedProjectId # ""
    /\ dashboard.deviceId # "" /\ dashboard.networkId # ""
    /\ \/ \A i \in DOMAIN dashboard.inputJson : dashboard.inputJson[i] = " "
       \/ dashboard.inputJson \in
             {<<"1">>, <<"{", "}">>, <<" ", "1">>, <<"{", " ", "}">>, <<"1", " ">>}

\* C24: handleRunNow calls requestWithSession('/runs', POST) only when demo
\* mode is enabled, a project, a device and a network are selected and the
\* Input JSON is empty or parses; a click in any other case makes no call and
\* leaves isSubmitting unchanged.
C24_RunNowOnlyWhenAllowed ==
    [][/\ \A s \in Slots :
            (exec[s].pc = "idle" /\ exec'[s].owner = "handleRunNow") => RunAllowed
       /\ (dashboard'.clicks # dashboard.clicks /\ ~RunAllowed) =>
            /\ exec' = exec
            /\ dashboard'.isSubmitting = dashboard.isSubmitting]_vars

\* the run was posted with an Input JSON text that parses
C24_Witness ==
    \E s \in Slots :
        /\ exec[s].owner = "handleRunNow" /\ exec[s].pc = "call1"
        /\ exec[s].init = ContentTypeJson
        /\ dashboard.isSubmitting
        /\ dashboard.env = "TRUE" /\ dashboard.inputJson = <<"{", " ", "}">>

\* the state of each loader of the Dashboard page: list, total, page, error
\* and selection
LoaderState(l) ==
    CASE l = "projects" -> <<topbar, selectedProjectId>>
      [] l = "device" -> panel.device
      [] l = "network" -> panel.network
      [] l = "live" -> panel.live

Loaders == {"projects", "device", "network", "live"}

LoaderOf(owner) ==
    CASE owner = "fetchProjects" -> "projects"
      [] owner = "fetchDevices" -> "device"
      [] owner = "fetchNetworks" -> "network"
      [] owner = "fetchLiveRuns" -> "live"
      [] OTHER -> "none"

\* C27: a step of one loader (a load starting, a response merged, an error
\* recorded, a selection changed) leaves the list, total, page, error and
\* selection of every other loader unchanged: no step changes two loaders, and
\* a step of a loader's request changes no other loader.
C27_LoadersAreIndependent ==
    [][/\ \A l, m \in Loaders :
            (LoaderState(l)' # LoaderState(l) /\ LoaderState(m)' # LoaderState(m))
                => l = m
       /\ \A s \in Slots : \A l \in Loaders :
            (exec'[s] # exec[s] /\ exec'[s].pc # "idle"
                                /\ l # LoaderOf(exec'[s].owner)) =>
                LoaderState(l)' = LoaderState(l)]_vars

\* a page of networks was merged while the device list, with a selection of
\* its own, and the running runs were loaded
C27_Witness ==
    \E s \in Slots : LET e == exec[s] IN
        /\ e.pc = "done" /\ e.owner = "fetchNetworks" /\ Success(e, e.body)
        /\ panel.network.items = <<"p2">> /\ panel.network.selected = "p2"
        /\ panel.device.items = <<"p1">> /\ panel.device.selected = "p1"
        /\ topbar.projects # <<>>

\* the only sign-in of this step is App.handleLogin or App.handleSignup
SignsIn == ~isAuthenticated /\ isAuthenticated'

\* C30: once the session store has been cleared it stays empty until the next
\* login or signup: no step other than a sign-in, and in particular no renewal
\* of an invocation that was in flight when the store was cleared, puts a
\* session record into the empty store.
C30_ClearedStoreStaysEmpty ==
    [][(~store.present /\ store'.present) => SignsIn]_vars

\* the Login or the Signup page hands a session to App in this step
SubmitsSession ==
    /\ screen \in {"Login", "Signup"} /\ screen' = screen
    /\ ~isAuthenticated /\ isAuthenticated'

C23_ProtectedPagesNeedAuth ==
    [][/\ (screen' # screen /\ screen' \in ShellPaths) =>
              (isAuthenticated /\ isAuthenticated')
       /\ (Committed /\ screen \in ShellPaths) => isAuthenticated
       /\ (route \in ShellPaths /\ ~isAuthenticated /\ route' # route) =>
              route' = "/login"
       /\ (route \in {"/login", "/signup"} /\ isAuthenticated /\ route' # route) =>
              route' = "/dashboard"]_vars

\* a user who signed in and logged out on a shell page is back on the login
\* page
C23_Witness ==
    /\ issued > 1 /\ ~isAuthenticated /\ ~logout
    /\ route = "/login" /\ screen = "Login"

\* C29: after the session-expired handler has run (the store is empty and the
\* notification shown) and the protected page has left the screen, with no
\* invocation pending, no protected page comes back on screen and no further
\* notification is shown until somebody signs in.
C29_StaysOnLoginAfterExpiry ==
    [][(/\ ~store.present /\ toasts > 0
        /\ screen \notin ShellPaths
        /\ \A s \in Slots : exec[s].pc = "idle"
        /\ ~SignsIn)
           => (screen' \notin ShellPaths /\ toasts' = toasts)]_vars

\* the session in the store is the one invocation e read at its entry or one
\* that e renewed itself
KnownTo(e) ==
    \/ store = e.record
    \/ \E i \in 1..Len(e.renewals) : store.session = e.renewals[i]

\* C31: when two invocations renew the same credential and one renewal fails,
\* the session survives: an invocation whose session-expired handler clears the
\* store never clears a record that the renewal of another invocation saved
\* after it had read its own.
C31_HandlerSparesRenewedRecord ==
    [][\A s \in Slots :
          (/\ InFlight(exec[s]) /\ exec'[s].pc = "done"
           /\ store.present /\ ~store'.present) => KnownTo(exec[s])]_vars

\* a list request of the Runs page is pending
LoadPending == \E s \in Slots : exec[s].owner = "fetchRuns" /\ InFlight(exec[s])

\* an earlier load has left its result on the page
LoadFinished == runs.errorMessage # NoError \/ runs.total > 0

\* invocation s has put a request on the network (a renewal or the call)
OnNetwork(e) == e.log # <<>> /\ e.log[1] \in {"call", "refresh"}

\* C32 as stated: once a load has finished, on whatever outcome, the in-flight
\* flag and the loading indicator are false and a new load call issues a
\* network call.
C32_NewLoadCallsNetwork ==
    [][\A s \in Slots, nextPage \in 1 .. MaxPage :
          (LoadFinished /\ ~LoadPending /\ handlePageChange(s, nextPage)) =>
              /\ ~runs.isFetching /\ ~runs.isLoading
              /\ OnNetwork(exec'[s])]_vars

\* C32: a load that passed the in-flight guard releases it when it finishes,
\* on every outcome: the flag and the loading indicator are false whenever no
\* load is pending, and a new load call then passes the guard and calls
\* requestWithSession, which issues a network call when the store holds an
\* access token.
C32_GuardIsReleased ==
    [][/\ \A s \in Slots :
             (exec'[s].owner = "fetchRuns" /\ exec[s].pc # "done"
                                           /\ exec'[s].pc = "done") =>
                 (~runs'.isFetching /\ ~runs'.isLoading)
       /\ ~LoadPending => (~runs.isFetching /\ ~runs.isLoading)
       /\ \A s \in Slots, nextPage \in 1 .. MaxPage :
             (~LoadPending /\ handlePageChange(s, nextPage)) =>
                 /\ exec'[s].owner = "fetchRuns"
                 /\ HasAccessToken(store) => OnNetwork(exec'[s])]_vars

\* a load has just ended in an exception with the guard released and an error
\* on the page
C32_Witness ==
    \E s \in Slots :
        /\ exec[s].pc = "done" /\ exec[s].owner = "fetchRuns"
        /\ exec[s].outcome = Threw
        /\ LoadFinished
        /\ ~runs.isFetching /\ ~runs.isLoading

\* the last load of the project list failed and TopBar has rendered the failure
ProjectLoadFailed ==
    /\ topbarView = Rendered(topbar, selectedProjectId)
    /\ topbar.projectError # NoError
    /\ ~topbar.isLoadingProjects
    /\ ~Settled

\* C33: after a page load of the project list has failed, a later user event
\* can still start a new load: reopening the dropdown when the list is empty,
\* scrolling to its end when more projects remain.
C33_FailureDoesNotBlock ==
    (/\ ProjectLoadFailed
     /\ topbar.projects = <<>> \/ hasMoreProjects(topbar)
     /\ topbar.projectPage < MaxPage)
        => ENABLED (\E s \in Slots : handleProjectOpen(s) \/ handleProjectScroll(s))

\* the next render of Runs will run the effect that reloads page 1
ReloadDue ==
    \/ ~runsView.mounted
    \/ runsView.selectedProjectId # selectedProjectId
    \/ runsView.state.statusFilter # runs.statusFilter
    \/ runsView.state.pageSize # runs.pageSize

\* C34: when the filter or the project changes while a list request of the
\* Runs page is in flight, then once no request is in flight and no reload is
\* due, the list on the page was answered to a request made with the current
\* filter and project.
C34_ListMatchesCurrentFilter ==
    \A s \in Slots :
        (/\ exec[s].pc = "done" /\ exec[s].owner = "fetchRuns"
         /\ Success(exec[s], exec[s].body)
         /\ ~LoadPending
         /\ ~ReloadDue)
            => /\ exec[s].arg.filter = runs.statusFilter
               /\ exec[s].arg.sel = selectedProjectId

\* a latest-issue request is pending
IssuePending ==
    \E s \in Slots : exec[s].owner = "fetchLatestIssue" /\ exec[s].pc # "idle"

\* C35: when the selected project changes from A to B while the latest-issue
\* request for A is in flight, then once no request is in flight (and
\* AlertsPanel has rendered the selection) the latest issue shown is that of
\* B, or none, never that of A.
C35_LatestIssueOfSelection ==
    (/\ ~IssuePending
     /\ dashboard.alerts.renderedFor = selectedProjectId)
        => dashboard.alerts.latestIssue \in {"", selectedProjectId}

\* every page of the server's list has been loaded into the project list
AllPagesLoaded ==
    /\ topbar.projectPage >= Len(server)
    /\ ~topbar.isLoadingProjects
    /\ topbar.projectError = NoError
    /\ \A s \in Slots : exec[s].pc = "idle"

\* C36: against a server whose list and total do not change, load-more stops
\* after finitely many requests: once every page of the list has been loaded,
\* hasMoreProjects is false, also when pages overlap and the merge has dropped
\* duplicate ids (later pages are empty and cannot change it).
C36_LoadMoreTerminates ==
    AllPagesLoaded => ~hasMoreProjects(topbar)

\* C37: whenever hasMoreProjects is false after at least one successful page
\* (and no request is pending), every project the server lists is present in
\* the project list, in any sequence of page loads and project creations.
C37_NoMoreMeansComplete ==
    (/\ topbar.projectPage >= 1
     /\ ~hasMoreProjects(topbar)
     /\ \A s \in Slots : exec[s].pc = "idle")
        => \A id \in server : Contains(topbar.projects, id)

\* C38: after handlePageChange(n) and a successful response for page n, the
\* current page stays n and the displayed items stay those of page n until
\* the next user action, also when that response reports a page_size
\* different from the one requested: a render that follows such a response,
\* with no filter or project change to act on, alters neither.
PageLoaded ==
    /\ runs.page >= 2
    /\ ~runs.isLoading
    /\ runs.errorMessage = NoError
    /\ runsView.mounted
    /\ runsView.state.statusFilter = runs.statusFilter
    /\ runsView.selectedProjectId = selectedProjectId

C38_PageStaysAfterResponse ==
    [][\A s \in Slots :
         (PageLoaded /\ RunsRender(s))
            => runs'.page = runs.page /\ runs'.runs = runs.runs]_vars

\* C39: at most one POST /runs submitted by handleRunNow is in flight at any
\* time, for every sequence of 'Run now' clicks.
RunPosts ==
    {s \in Slots : /\ exec[s].owner \in {"handleRunNow", "handleRunNow, unmounted"}
                   /\ InFlight(exec[s])}

C39_OneRunPostInFlight == Cardinality(RunPosts) <= 1

====
